---- MODULE Spec2Model ----
(***************************************************************************)
(* Model of the search procedures of emf/fields/fields_funks.py:           *)
(*   optimize_phasing / _phasing_test  (exhaustive phase permutation)      *)
(*   _bisect                           (height root finder)                *)
(*   target_fields                     (height adjustment per target)      *)
(* and of the linear solver of new_model_test.py:                          *)
(*   Crout_factorization, forward_substitution,                            *)
(*   Crout_backward_substitution                                           *)
(*   E_field                           (electric field of a conductor set) *)
(* of load_template of fields_funks.py (reading of one template sheet),    *)
(* of SectionBook of emf_class.py      (add_section and lookup by name),   *)
(* and of emf/subcalc/subcalc_funks.py:                                    *)
(*   _double_min, _bilinear_interp     (interpolation on a results grid)   *)
(* Conductor indices keep Python's zero base; TLA+ sequences are 1-based,  *)
(* so arrays indexed by conductor are functions over 0..n-1 and Python     *)
(* lists of indices are sequences.                                         *)
(***************************************************************************)
EXTENDS Integers, Sequences, FiniteSets, TLC

\* ---------------------------------------------------------------- bounds
MaxHot == 6
MaxGnd == 1
\* _bisect inputs
MaxIter2 == 14
HHigh == 8
MaxA == 12
MaxSlope == 3
MaxTarget == 3

\* calls made on one SectionBook
MaxCalls == 4

\* phase angles 0, 120, 240 degrees, in units of 120 degrees
Phases == {0, 1, 2}

\* np.inf, the initial value of the four running minima
Inf == 1000000

\* a circuit index that is not a Python int (e.g. the float 1.0)
NonInt == 99

Metrics == {"B_left", "B_right", "E_left", "E_right"}

VARIABLES
    \* ---- optimize_phasing
    nHot,       \* len(xc.hot)
    nGnd,       \* len(xc.gnd)
    tags,       \* tags[i]: tag of xc.hot[i]
    phase,      \* xc.phase, hot conductors first, then grounded
    circuits,   \* the circuits argument: mode "all", or mode "list" and its groups
    circ,       \* circuits after the 'all' expansion
    opc,        \* position inside optimize_phasing
    oerr,       \* exception raised by optimize_phasing
    updated,    \* xc.update_arrays() has been called
    phasing,    \* the shared swap buffer
    conds,      \* flattened conductor indices
    perm,       \* perm: the list of permutations of each circuit
    P,          \* number of candidates the product generator has yielded
    mins,       \* B_left_min, B_right_min, E_left_min, E_right_min
    arrs,       \* B_left_arr, B_right_arr, E_left_arr, E_right_arr
    nEval,      \* number of _phasing_test calls made
    lastPh,     \* phase vector handed to the solvers by the last call
    bestPh,     \* phase vector of the evaluation that set each running minimum
    results,    \* the results DataFrame: index and the four columns
    opt,        \* the SectionBook of derived cross-sections
    \* ---- _bisect
    funk,       \* the objective: metric(h) is a - b*h, or |a - b*h|
    target,     \* the target metric value
    rel_err,    \* relative error tolerance, in units of 1/RelDen
    max_iter,   \* iteration cap, in halves (3 stands for max_iter = 1.5)
    hlow,       \* lower end of the bracket, in units of 1/Scale
    hhigh,      \* upper end of the bracket, in units of 1/Scale
    hmid,       \* current midpoint, in units of 1/Scale
    flow,       \* f(hlow) at entry, times Scale
    fhigh,      \* f(hhigh) at entry, times Scale
    fmid,       \* f(hmid), times Scale
    count,      \* number of midpoints evaluated
    evals,      \* number of calls of funk
    bpc,        \* position inside _bisect
    ret,        \* the returned height increment
    \* ---- target_fields
    txc,        \* the input cross-section: y of its hot and of its gnd conductors
    thot,       \* the hot argument: mode "all", or mode "list" and its indices
    tgnd,       \* the gnd argument, likewise
    targets,    \* <<B_l, B_r, E_l, E_r>>
    tfunks,     \* the objective of each of the four field-edge combinations
    kw,         \* the keyword arguments max_iter, rel_err and hhigh
    tconds,     \* the flattened indices, conds
    slot,       \* the field-edge combination of the running _bisect call
    order,      \* the combinations _bisect was called for, in call order
    outcome,    \* how the _bisect call of each combination ended
    hs,         \* h_B_l, h_B_r, h_E_l, h_E_r
    h_ret,      \* the returned tuple h
    adj,        \* the returned SectionBook
    tpc,        \* position inside target_fields
    terr,       \* exception target_fields ended with
    \* ---- Crout_factorization and the two substitutions
    cn,         \* n, the size of the system
    cA,         \* the matrix A
    cb,         \* the right-hand side b
    LU,         \* the combined factor matrix LU
    cstep,      \* number of cells of LU assigned so far, plus one
    cy,         \* the vector forward_substitution returns
    cx,         \* the vector Crout_backward_substitution returns
    ck,         \* the loop index i of the running substitution
    cpc,        \* position inside the solver
    \* ---- E_field
    eargs,      \* the array objects the caller passed, by argument name
    before,     \* the content of those arrays when E_field was called
    eloc,       \* the locals T, w_cond, d_cond, x and y
    Pm,         \* the potential coefficient matrix P
    einst,      \* index into Instants of the time step being solved
    Q,          \* the rows of Q solved so far
    E_x,        \* the returned x components, by time step and sample point
    E_y,        \* the returned y components
    epc,        \* position inside E_field
    eerr,       \* exception E_field ended with
    \* ---- load_template
    rows,       \* the conductor rows of the sheet: hot and gnd, in sheet order
    seen,       \* the running lists tags, x and y of the loop in progress
    lxc,        \* the CrossSection being filled: its hot and gnd lists
    lrow,       \* index of the next row of the loop in progress
    lpc,        \* position inside load_template
    lerr,       \* exception load_template ended with
    \* ---- SectionBook
    sb,         \* the book: its xcs, names, tags and name2idx
    under,      \* the section each name was accepted with
    sbcalls,    \* calls made on the book so far
    sbarg,      \* the argument of the last call
    sbret,      \* what the last call returned or raised
    \* ---- _double_min
    dv,         \* the argument v
    dmins,      \* the array mins
    didxs,      \* the array idxs
    di,         \* the loop index i
    dpc,        \* position inside _double_min
    derr,       \* exception _double_min ended with
    \* ---- _bilinear_interp
    mod,        \* the Model: its grid lines x and y and its values B[row][col]
    qx,         \* the argument x
    qy,         \* the argument y
    xidx,       \* indices of the two grid lines in x that were picked
    yidx,       \* indices of the two grid lines in y that were picked
    B_interp,   \* the returned value
    ipc,        \* position inside _bilinear_interp
    ierr        \* exception _bilinear_interp ended with

ovars == <<nHot, nGnd, tags, phase, circuits, circ, opc, oerr, updated,
           phasing, conds, perm, P, mins, arrs, nEval, lastPh, bestPh, results,
           opt>>

bvars == <<funk, target, rel_err, max_iter, hlow, hhigh, hmid, flow, fhigh,
           fmid, count, evals, bpc, ret>>

tvars == <<txc, thot, tgnd, targets, tfunks, kw, tconds, slot, order,
           outcome, hs, h_ret, adj, tpc, terr>>

cvars == <<cn, cA, cb, LU, cstep, cy, cx, ck, cpc>>

evars == <<eargs, before, eloc, Pm, einst, Q, E_x, E_y, epc, eerr>>

lvars == <<rows, seen, lxc, lrow, lpc, lerr>>

svars == <<sb, under, sbcalls, sbarg, sbret>>

dvars == <<dv, dmins, didxs, di, dpc, derr>>

ivars == <<mod, qx, qy, xidx, yidx, B_interp, ipc, ierr>>

vars == <<ovars, bvars, tvars, cvars, evars, lvars, svars, dvars, ivars>>

\* the variables of the procedures an action does not belong to
notOpt == <<bvars, tvars, cvars, evars, lvars, svars, dvars, ivars>>

notBisect == <<ovars, tvars, cvars, evars, lvars, svars, dvars, ivars>>

notTarget == <<ovars, cvars, evars, lvars, svars, dvars, ivars>>

notCrout == <<ovars, bvars, tvars, evars, lvars, svars, dvars, ivars>>

notEField == <<ovars, bvars, tvars, lvars, svars, dvars, ivars>>

notLoad == <<ovars, bvars, tvars, cvars, evars, svars, dvars, ivars>>

notBook == <<ovars, bvars, tvars, cvars, evars, lvars, dvars, ivars>>

notMin == <<ovars, bvars, tvars, cvars, evars, lvars, svars, ivars>>

notInterp == <<ovars, bvars, tvars, cvars, evars, lvars, svars, dvars>>

\* ------------------------------------------------------- pure helpers
Abs(x) == IF x < 0 THEN -x ELSE x

\* Python's range(a, b) as a list
Range(a, b) == [k \in 1..(IF b > a THEN b - a ELSE 0) |-> a + k - 1]

\* sequence s without its i-th element
RemoveAt(s, i) == [k \in 1..(Len(s) - 1) |-> IF k < i THEN s[k] ELSE s[k + 1]]

RECURSIVE ConcatAll(_)
ConcatAll(ss) == IF ss = <<>> THEN <<>> ELSE Head(ss) \o ConcatAll(Tail(ss))

\* itertools.permutations(c), as a list in the order itertools yields
RECURSIVE permutations(_)
permutations(c) ==
    IF Len(c) = 0 THEN << <<>> >>
    ELSE ConcatAll([i \in 1..Len(c) |->
            LET rest == permutations(RemoveAt(c, i))
            IN  [k \in 1..Len(rest) |-> <<c[i]>> \o rest[k]]])

\* number of tuples itertools.product(*perm) yields
RECURSIVE ProductSize(_)
ProductSize(pm) ==
    IF Len(pm) = 0 THEN 1 ELSE Len(Head(pm)) * ProductSize(Tail(pm))

\* the n-th tuple (from 0) itertools.product(*perm) yields: the last
\* group varies fastest
RECURSIVE product(_, _)
product(pm, n) ==
    IF Len(pm) = 0 THEN <<>>
    ELSE LET rest == ProductSize(Tail(pm))
         IN  <<Head(pm)[(n \div rest) + 1]>> \o product(Tail(pm), n % rest)

\* _flatten(arr): the groups of an arrangement joined into one list
Flatten(arr) == ConcatAll(arr)

\* circuits = [range(i*3, i*3 + 3) for i in range(G)], G = int(N/3)
AllCircuits(N) == [g \in 1..(N \div 3) |-> Range((g - 1) * 3, (g - 1) * 3 + 3)]

\* the hot conductor count is not checked
HotCountOKMut(N) == N >= 0

\* the check of the hot conductor count in 'all' mode
HotCountOK(N) == N % 3 = 0

\* for circ in range(len(circuits)): for idx in circ: type(idx) is not int
\* circ is an int there, so entering the inner loop raises TypeError
IndexCheck(cs) ==
    IF Len(cs) = 0 THEN "ok" ELSE "TypeError"

\* the swap reads the buffer it writes, not the phases of the cross-section
SwapPhasesMut(buf, cd, ph, new_arr) ==
    [i \in DOMAIN buf |->
        IF \E k \in 1..Len(cd) : cd[k] = i
        THEN LET last == CHOOSE k \in 1..Len(cd) :
                            cd[k] = i /\ \A j \in (k + 1)..Len(cd) : cd[j] # i
             IN  buf[new_arr[last]]
        ELSE buf[i]]

\* phasing[conds] = xc.phase[new_arr]: the right-hand side is read from
\* xc.phase, slots are written in order, a repeated slot keeps the last write
SwapPhases(buf, cd, ph, new_arr) ==
    [i \in DOMAIN buf |->
        IF \E k \in 1..Len(cd) : cd[k] = i
        THEN LET last == CHOOSE k \in 1..Len(cd) :
                            cd[k] = i /\ \A j \in (k + 1)..Len(cd) : cd[j] # i
             IN  ph[new_arr[last]]
        ELSE buf[i]]

\* weight of conductor i in metric m
Coef(m, i) ==
    LET base == CASE m = "B_left" -> 1 [] m = "B_right" -> 2
                  [] m = "E_left" -> 3 [] OTHER -> 4
    IN  (((i + 1) * base) % 5) - 2

\* weighted sum of the phases of conductors 0..n-1
RECURSIVE WeightedSum(_, _, _)
WeightedSum(m, ph, n) ==
    IF n = 0 THEN 0
    ELSE Coef(m, n - 1) * (ph[n - 1] + 1) + WeightedSum(m, ph, n - 1)

\* E_field / B_field followed by phasors_to_magnitudes at one ROW edge:
\* a fixed non-negative function of the phase vector
Metric(m, ph, n) == Abs(WeightedSum(m, ph, n))

\* position of tag t in the index of the results table
IndexOf(index, t) == CHOOSE k \in 1..Len(index) : index[k] = t

InIndex(index, t) == \E k \in 1..Len(index) : index[k] = t

\* SectionBook.add_section
AddSection(book, xc) ==
    IF \E k \in 1..Len(book) : book[k].name = xc.name
    THEN book
    ELSE Append(book, xc)

SectionNames == <<"Optimized_for_Bmax_left", "Optimized_for_Bmax_right",
                  "Optimized_for_Emax_left", "Optimized_for_Emax_right">>

\* the column of the results table each derived section reads
SectionMetric == <<"B_left", "B_right", "E_left", "E_right">>

\* the copy is stored without swapping the phases
DerivedPhaseMut(res, m) == phase

\* the hot phases of new_xc after "swap the conductor phasings"
DerivedPhase(res, m) ==
    [i \in 0..(nHot + nGnd - 1) |->
        IF i < nHot /\ InIndex(res.index, tags[i])
        THEN res.cols[m][IndexOf(res.index, tags[i])]
        ELSE phase[i]]

\* ------------------------------------------------------------- inputs
\* explicit circuits arguments
GroupChoices(N) ==
    {g \in { <<0, 1, 2>>, <<0, NonInt, 2>> } :
        \A k \in 1..Len(g) : g[k] = NonInt \/ g[k] < N}

ExplicitCircuits(N) ==
    { <<>> } \cup { <<g>> : g \in GroupChoices(N) }
             \cup (IF N >= 6 THEN { << <<0, 1, 2>>, <<3, 4, 5>> >> } ELSE {})

\* tags are unique within the hot conductors; they are not the indices
TagOrders(N) == { [i \in 0..(N - 1) |-> N - i] }

OptInit ==
    /\ nHot \in 0..MaxHot
    /\ nGnd \in {0, MaxGnd}
    /\ tags \in TagOrders(nHot)
    /\ \E hp \in [0..(nHot - 1) -> Phases] :
          phase = [i \in 0..(nHot + nGnd - 1) |-> IF i < nHot THEN hp[i] ELSE 0]
    /\ circuits \in [mode : {"all"}, groups : {<<>>}] \cup
                    [mode : {"list"}, groups : ExplicitCircuits(nHot)]
    /\ circ = <<>>
    /\ opc = "start"
    /\ oerr = "none"
    /\ updated = FALSE
    /\ phasing = <<>>
    /\ conds = <<>>
    /\ perm = <<>>
    /\ P = 0
    /\ mins = [m \in Metrics |-> Inf]
    /\ arrs = [m \in Metrics |-> <<>>]
    /\ nEval = 0
    /\ lastPh = <<>>
    /\ bestPh = [m \in Metrics |-> <<>>]
    /\ results = [index |-> <<>>, cols |-> [m \in Metrics |-> <<>>]]
    /\ opt = <<>>

\* ------------------------------------------------------------ actions
\* perm, lines 200-202: the permutations of each circuit
Perm(cs) == [k \in 1..Len(cs) |-> permutations(cs[k])]

\* optimize_phasing, lines 176-219: validation and set-up of the search
OptStart ==
    /\ opc = "start"
    /\ LET isAll == circuits.mode = "all"
           bad == IF isAll
                  THEN (IF HotCountOK(nHot) THEN "ok" ELSE "EMFError")
                  ELSE IndexCheck(circuits.groups)
           cs == IF isAll THEN AllCircuits(nHot) ELSE circuits.groups
       IN  IF bad # "ok"
           THEN /\ opc' = "raised"
                /\ oerr' = bad
                /\ UNCHANGED <<circ, updated, phasing, conds, perm, P>>
           ELSE /\ opc' = "search"
                /\ oerr' = "none"
                /\ circ' = cs
                /\ perm' = Perm(cs)
                /\ P' = 0
                /\ updated' = TRUE
                /\ phasing' = phase
                /\ conds' = Flatten(cs)
    /\ UNCHANGED <<nHot, nGnd, tags, phase, circuits, mins, arrs, nEval,
                   lastPh, bestPh, results, opt>>
    /\ UNCHANGED notOpt

\* the comparison turned around: the search keeps the largest value
BetterMut(val, cur) == cur = Inf \/ val > cur

\* the update of one running minimum, "if(Bmax[0] < B_left_min)"
Better(val, cur) == val < cur

\* one pass of the loop "for arr in P", lines 221-232, with _phasing_test
OptCandidate ==
    /\ opc = "search"
    /\ P < ProductSize(perm)
    /\ phasing' = SwapPhases(phasing, conds, phase, Flatten(product(perm, P)))
    /\ lastPh' = phasing'
    /\ LET new_arr == Flatten(product(perm, P))
           val == [m \in Metrics |-> Metric(m, phasing', nHot + nGnd)]
       IN  /\ mins' = [m \in Metrics |->
                        IF Better(val[m], mins[m]) THEN val[m] ELSE mins[m]]
           /\ arrs' = [m \in Metrics |->
                        IF Better(val[m], mins[m]) THEN new_arr ELSE arrs[m]]
           /\ bestPh' = [m \in Metrics |->
                        IF Better(val[m], mins[m]) THEN phasing' ELSE bestPh[m]]
    /\ P' = P + 1
    /\ nEval' = nEval + 1
    /\ UNCHANGED <<nHot, nGnd, tags, phase, circuits, circ, opc, oerr,
                   updated, conds, perm, results, opt>>
    /\ UNCHANGED notOpt

\* the results table, lines 234-239
ResultsTable(ars) ==
    [index |-> [k \in 1..Len(conds) |-> tags[conds[k]]],
     cols  |-> [m \in Metrics |-> [k \in 1..Len(ars[m]) |-> phase[ars[m][k]]]]]

RECURSIVE BuildBook(_, _, _)
BuildBook(book, res, k) ==
    IF k > Len(SectionNames) THEN book
    ELSE BuildBook(AddSection(book,
                       [name |-> SectionNames[k],
                        phase |-> DerivedPhase(res, SectionMetric[k])]),
                   res, k + 1)

\* optimize_phasing, lines 233-260 and the return at 276
OptFinish ==
    /\ opc = "search"
    /\ P = ProductSize(perm)
    /\ results' = ResultsTable(arrs)
    /\ opt' = BuildBook(<<>>, ResultsTable(arrs), 1)
    /\ opc' = "done"
    /\ UNCHANGED <<nHot, nGnd, tags, phase, circuits, circ, oerr, updated,
                   phasing, conds, perm, P, mins, arrs, nEval, lastPh, bestPh>>
    /\ UNCHANGED notOpt

NextOpt == OptStart \/ OptCandidate \/ OptFinish

\* ============================================================ _bisect
\* heights are exact binary fractions: one unit is 1/Scale, and Scale is
\* two to the largest number of midpoints a call can evaluate
RECURSIVE Pow2(_)
Pow2(n) == IF n <= 0 THEN 1 ELSE 2 * Pow2(n - 1)

MaxCount == (MaxIter2 + 1) \div 2

Scale == Pow2(MaxCount)

\* denominator of the tolerances of the model (rel_err = 1 stands for 1/4)
RelDen == 4

\* _B_funk / _E_funk: metric of the raised geometry minus the target,
\* times Scale; h is in units of 1/Scale
Funk(fn, h, tgt) ==
    IF fn.shape = "lin"
    THEN Scale * fn.a - fn.b * h - Scale * tgt
    ELSE Abs(Scale * fn.a - fn.b * h) - Scale * tgt

\* "flow*fhigh > 0." restricted to two positive values
NotBracketedMut(fl, fh) == fl > 0 /\ fh > 0

\* the bracket check "flow*fhigh > 0."
NotBracketed(fl, fh) == fl * fh > 0

\* the first conjunct of the loop condition, abs(fmid/target) > rel_err
NotConverged(fm, tgt, re) == Abs(fm) * RelDen > re * Abs(tgt) * Scale

\* the second conjunct of the loop condition, count < max_iter
BelowCap(cnt, mi) == 2 * cnt < mi

\* "if(count == max_iter)"
LimitHit(cnt, mi) == 2 * cnt = mi

\* (hhigh + hlow)/2.0
Mid(hl, hh) == (hh + hl) \div 2

\* the halves of the bracket exchanged
NewBracketMut(hl, hh, hm, fl, fh, fm) ==
    IF fm * fl > 0 THEN <<hl, hm>>
    ELSE IF fm * fh > 0 THEN <<hm, hh>>
    ELSE <<hl, hh>>

\* "test and throw half out", lines 446-449
NewBracket(hl, hh, hm, fl, fh, fm) ==
    IF fm * fl > 0 THEN <<hm, hh>>
    ELSE IF fm * fh > 0 THEN <<hl, hm>>
    ELSE <<hl, hh>>

Funks == [a : 0..MaxA, b : 0..MaxSlope, shape : {"lin", "vee"}]

BisectInit ==
    /\ funk \in Funks
    /\ target \in 1..MaxTarget
    /\ rel_err \in {-1, 0, 1, 2}
    /\ max_iter \in {-2, 0, 1} \cup 2..MaxIter2
    /\ hlow = 0
    /\ hhigh = HHigh * Scale
    /\ hmid = 0
    /\ flow = 0
    /\ fhigh = 0
    /\ fmid = 0
    /\ count = 0
    /\ evals = 0
    /\ bpc = "entry"
    /\ ret = 0

\* _bisect, lines 429-442: the bracket check and the first midpoint
BisectEnter ==
    /\ bpc = "entry"
    /\ LET fl == Funk(funk, hlow, target)
           fh == Funk(funk, hhigh, target)
           hm == Mid(hlow, hhigh)
       IN  /\ flow' = fl
           /\ fhigh' = fh
           /\ IF NotBracketed(fl, fh)
              THEN /\ bpc' = "raised_bracket"
                   /\ evals' = 2
                   /\ UNCHANGED <<hmid, fmid, count>>
              ELSE /\ bpc' = "loop"
                   /\ hmid' = hm
                   /\ fmid' = Funk(funk, hm, target)
                   /\ count' = 1
                   /\ evals' = 3
    /\ UNCHANGED <<funk, target, rel_err, max_iter, hlow, hhigh, ret>>
    /\ UNCHANGED notBisect

\* one pass of the while loop, lines 444-456
BisectIterate ==
    /\ bpc = "loop"
    /\ NotConverged(fmid, target, rel_err)
    /\ BelowCap(count, max_iter)
    /\ IF ~(fmid * flow > 0) /\ ~(fmid * fhigh > 0) /\ fmid = 0
       THEN /\ bpc' = "returned"
            /\ ret' = hmid
            /\ UNCHANGED <<hlow, hhigh, hmid, fmid, count, evals>>
       ELSE LET br == NewBracket(hlow, hhigh, hmid, flow, fhigh, fmid)
                hm == Mid(br[1], br[2])
            IN  /\ hlow' = br[1]
                /\ hhigh' = br[2]
                /\ hmid' = hm
                /\ fmid' = Funk(funk, hm, target)
                /\ count' = count + 1
                /\ evals' = evals + 1
                /\ UNCHANGED <<bpc, ret>>
    /\ UNCHANGED <<funk, target, rel_err, max_iter, flow, fhigh>>
    /\ UNCHANGED notBisect

\* after the loop, lines 457-463: the iteration limit check and the return
BisectExit ==
    /\ bpc = "loop"
    /\ ~(NotConverged(fmid, target, rel_err) /\ BelowCap(count, max_iter))
    /\ IF LimitHit(count, max_iter)
       THEN bpc' = "raised_iter" /\ UNCHANGED ret
       ELSE bpc' = "returned" /\ ret' = hmid
    /\ UNCHANGED <<funk, target, rel_err, max_iter, hlow, hhigh, hmid, flow,
                   fhigh, fmid, count, evals>>
    /\ UNCHANGED notBisect

NextBisect == BisectEnter \/ BisectIterate \/ BisectExit

\* ====================================================== target_fields
\* None, for a target and for a height increment
NoneVal == -1

\* the truth value of a target in "if(B_l):", false for None, False and 0
Truthy(v) == v # NoneVal /\ v # 0

\* the set of the elements of a list
Elems(s) == { s[k] : k \in DOMAIN s }

\* the 'all' conversion, lines 346-349
Indices(arg, n) == IF arg.mode = "all" THEN Range(0, n) ELSE arg.idx

\* conds, line 365
Conds(hot, gnd, nh) == hot \o [k \in 1..Len(gnd) |-> nh + gnd[k]]

\* xc.y, the hot conductors first and then the grounded ones
FlatY(xc) ==
    [i \in 0..(Len(xc.hot) + Len(xc.gnd) - 1) |->
        IF i < Len(xc.hot) THEN xc.hot[i + 1] ELSE xc.gnd[i + 1 - Len(xc.hot)]]

\* "y[conds] += h" of _B_funk and _E_funk: numpy adds h once to every
\* selected entry, however often conds names it
RaisedY(y, cnds, a) ==
    [i \in DOMAIN y |-> IF i \in Elems(cnds) THEN y[i] + a ELSE y[i]]

\* number of occurrences of i in the list s
Occurrences(s, i) == Cardinality({ k \in DOMAIN s : s[k] = i })

\* lines 399-402: "for idx in hot: new_xc.hot[idx].y += a", and the same
\* for gnd; one addition per occurrence of an index
DerivedY(xc, hot, gnd, a) ==
    [hot |-> [k \in 1..Len(xc.hot) |-> xc.hot[k] + a * Occurrences(hot, k - 1)],
     gnd |-> [k \in 1..Len(xc.gnd) |-> xc.gnd[k] + a * Occurrences(gnd, k - 1)]]

\* the four "if" statements of lines 370-381, in program order: the first
\* combination after k whose target is not skipped, 5 if none is left
NextSlot(k, tg) ==
    IF \E j \in (k + 1)..4 : Truthy(tg[j])
    THEN CHOOSE j \in (k + 1)..4 :
            Truthy(tg[j]) /\ \A i \in (k + 1)..(j - 1) : ~Truthy(tg[i])
    ELSE 5

\* only a bracketing failure leaves target_fields
PropagatesMut(b) == b = "raised_bracket"

\* the _bisect calls are not inside a try statement: both of its
\* exceptions leave target_fields
Propagates(b) == b \in {"raised_bracket", "raised_iter"}

TargetValues == {NoneVal, 0, 1, 3}

TargetFunks ==
    { [k \in 1..4 |-> [a |-> fa + k, b |-> fb, shape |-> "lin"]] :
        fa \in {1, 4}, fb \in {1, 3} }

TargetArgs ==
    { [hot |-> [mode |-> "all", idx |-> <<>>],
       gnd |-> [mode |-> "list", idx |-> <<>>]],
      [hot |-> [mode |-> "list", idx |-> <<0, 0>>],
       gnd |-> [mode |-> "all", idx |-> <<>>]] }

TargetInit ==
    /\ txc = [hot |-> <<30, 35>>, gnd |-> <<45>>]
    /\ \E ar \in TargetArgs : thot = ar.hot /\ tgnd = ar.gnd
    /\ targets \in [1..4 -> TargetValues]
    /\ tfunks \in TargetFunks
    /\ kw \in [max_iter : {4, MaxIter2}, rel_err : {1}, hhigh : {HHigh * Scale}]
    /\ tconds = <<>>
    /\ slot = 0
    /\ order = <<>>
    /\ outcome = [k \in 1..4 |-> "none"]
    /\ hs = [k \in 1..4 |-> NoneVal]
    /\ h_ret = <<>>
    /\ adj = <<>>
    /\ tpc = "start"
    /\ terr = "none"

\* target_fields, lines 345-369
TargetStart ==
    /\ tpc = "start"
    /\ tconds' = Conds(Indices(thot, Len(txc.hot)), Indices(tgnd, Len(txc.gnd)),
                       Len(txc.hot))
    /\ hs' = [k \in 1..4 |-> NoneVal]
    /\ tpc' = "solving"
    /\ UNCHANGED <<txc, thot, tgnd, targets, tfunks, kw, slot, order, outcome,
                   h_ret, adj, terr>>
    /\ UNCHANGED bvars
    /\ UNCHANGED notTarget

\* lines 370-381: the next "if" whose target is not skipped calls _bisect
TargetCall ==
    /\ tpc = "solving"
    /\ bpc = "idle"
    /\ NextSlot(slot, targets) <= 4
    /\ LET k == NextSlot(slot, targets)
       IN  /\ slot' = k
           /\ order' = Append(order, k)
           /\ funk' = tfunks[k]
           /\ target' = targets[k]
    /\ rel_err' = kw.rel_err
    /\ max_iter' = kw.max_iter
    /\ hlow' = 0
    /\ hhigh' = kw.hhigh
    /\ hmid' = 0 /\ flow' = 0 /\ fhigh' = 0 /\ fmid' = 0
    /\ count' = 0 /\ evals' = 0 /\ ret' = 0
    /\ bpc' = "entry"
    /\ UNCHANGED <<txc, thot, tgnd, targets, tfunks, kw, tconds, outcome, hs,
                   h_ret, adj, tpc, terr>>
    /\ UNCHANGED notTarget

\* the end of a _bisect call: its value is assigned, or its exception
\* leaves target_fields
TargetReturn ==
    /\ tpc = "solving"
    /\ bpc \in {"returned", "raised_bracket", "raised_iter"}
    /\ outcome' = [outcome EXCEPT ![slot] = bpc]
    /\ IF Propagates(bpc)
       THEN /\ tpc' = "raised"
            /\ terr' = "EMFError"
            /\ UNCHANGED <<hs, bpc>>
       ELSE /\ hs' = [hs EXCEPT ![slot] = IF bpc = "returned" THEN ret
                                          ELSE NoneVal]
            /\ bpc' = "idle"
            /\ UNCHANGED <<tpc, terr>>
    /\ UNCHANGED <<txc, thot, tgnd, targets, tfunks, kw, tconds, slot, order,
                   h_ret, adj>>
    /\ UNCHANGED <<funk, target, rel_err, max_iter, hlow, hhigh, hmid, flow,
                   fhigh, fmid, count, evals, ret>>
    /\ UNCHANGED notTarget

\* lines 383-384: the tuple h is built, and the name SectionBook, which the
\* module neither defines nor imports, raises NameError
TargetFinish ==
    /\ tpc = "solving"
    /\ bpc = "idle"
    /\ NextSlot(slot, targets) = 5
    /\ tpc' = "raised"
    /\ terr' = "NameError"
    /\ UNCHANGED <<txc, thot, tgnd, targets, tfunks, kw, tconds, slot, order,
                   outcome, hs, h_ret, adj>>
    /\ UNCHANGED bvars
    /\ UNCHANGED notTarget

NextTarget ==
    TargetStart \/ TargetCall \/ BisectEnter \/ BisectIterate \/ BisectExit
    \/ TargetReturn \/ TargetFinish

\* ======================================================= linear solver
\* A float is an exact fraction <<numerator, denominator>> in lowest terms
\* with a positive denominator; rounding is not modelled.  The denominator 0
\* stands for the values that are not finite: <<1, 0>> is inf, <<-1, 0>> is
\* -inf and <<0, 0>> is nan.
RECURSIVE GCD(_, _)
GCD(a, b) == IF b = 0 THEN a ELSE GCD(b, a % b)

Sign(k) == IF k > 0 THEN 1 ELSE IF k < 0 THEN -1 ELSE 0

Norm(num, den) ==
    IF den = 0 THEN <<Sign(num), 0>>
    ELSE LET g == GCD(Abs(num), Abs(den))
         IN  <<(Sign(den) * num) \div g, Abs(den) \div g>>

\* the float of an int
R(k) == <<k, 1>>

NaN == <<0, 0>>

PInf == <<1, 0>>

IsFinite(q) == q[2] # 0

\* float addition: inf + (-inf) is nan, inf absorbs a finite value
RAdd(p, q) ==
    IF p[2] = 0 /\ q[2] = 0 THEN (IF p = q THEN p ELSE NaN)
    ELSE IF p[2] = 0 THEN p
    ELSE IF q[2] = 0 THEN q
    ELSE LET g == GCD(p[2], q[2])
         IN  Norm(p[1] * (q[2] \div g) + q[1] * (p[2] \div g),
                  (p[2] \div g) * q[2])

RNeg(p) == <<-p[1], p[2]>>

RSub(p, q) == RAdd(p, RNeg(q))

\* float multiplication: inf * 0 is nan
RMul(p, q) ==
    IF p[2] = 0 \/ q[2] = 0 THEN Norm(p[1] * q[1], 0)
    ELSE LET g1 == GCD(Abs(p[1]), q[2])
             g2 == GCD(Abs(q[1]), p[2])
         IN  Norm((p[1] \div g1) * (q[1] \div g2),
                  (p[2] \div g2) * (q[2] \div g1))

\* 1/q for numpy floats: 1/0 is inf (a warning, no exception), 1/inf is 0
RRecip(q) ==
    IF q = NaN THEN NaN
    ELSE IF q[2] = 0 THEN R(0)
    ELSE IF q[1] = 0 THEN PInf
    ELSE Norm(q[2], q[1])

\* float division of numpy: x/0 is inf or -inf, 0/0 and inf/inf are nan
RDiv(p, q) == RMul(p, RRecip(q))

\* the index pairs of an n x n array
Cells(n) == (0..(n - 1)) \X (0..(n - 1))

\* sum([M[r,k]*M[k,c] for k in range(upto)]), added from the left to the int 0
RECURSIVE DotTo(_, _, _, _)
DotTo(M, r, c, upto) ==
    IF upto <= 0 THEN R(0)
    ELSE RAdd(DotTo(M, r, c, upto - 1),
              RMul(M[<<r, upto - 1>>], M[<<upto - 1, c>>]))

\* sum([M[i,j]*v[j] for j in range(from, upto)])
RECURSIVE DotVec(_, _, _, _, _)
DotVec(M, v, i, from, upto) ==
    IF upto <= from THEN R(0)
    ELSE RAdd(DotVec(M, v, i, from, upto - 1),
              RMul(M[<<i, upto - 1>>], v[upto - 1]))

\* the cells Crout_factorization assigns, in program order: for every i the
\* column i from the diagonal down (lines 33-35), then the row i to the right
\* of the diagonal (lines 36-38)
FactorSteps(n) ==
    ConcatAll([i1 \in 1..n |->
        [k \in 1..(n - i1 + 1) |-> <<"L", i1 + k - 2, i1 - 1>>] \o
        [k \in 1..(n - i1) |-> <<"U", i1 - 1, i1 + k - 1>>]])

\* line 35: LU[j,i] = A[j,i] - sum([LU[j,k]*LU[k,i] for k in range(j)])
LCell(M, A, j, i) == RSub(A[<<j, i>>], DotTo(M, j, i, j))

\* line 38: LU[i,j] = (A[i,j] - sum([LU[i,k]*LU[k,j] for k in range(i)]))/LU[i,i]
UCell(M, A, i, j) == RDiv(RSub(A[<<i, j>>], DotTo(M, i, j, i)), M[<<i, i>>])

\* the cells of LU the right-hand side of an assignment reads: every
\* LU[j,k] and LU[k,i] for k in range(j) on line 35; every LU[i,k] and
\* LU[k,j] for k in range(i), and the pivot LU[i,i], on line 38
ReadCells(st) ==
    IF st[1] = "L"
    THEN UNION { {<<st[2], k>>, <<k, st[3]>>} : k \in 0..(st[2] - 1) }
    ELSE UNION { {<<st[2], k>>, <<k, st[3]>>} : k \in 0..(st[2] - 1) }
         \cup {<<st[2], st[2]>>}

\* the cells the first upto assignments of the call have written
WrittenCells(n, upto) ==
    { <<FactorSteps(n)[s][2], FactorSteps(n)[s][3]>> : s \in 1..upto }

\* forward substitution without the division
ForwardCellMut(M, b, v, i) == RSub(b[i], DotVec(M, v, i, 0, i))

\* line 23: x[i] = (b[i] - sum([A[i,j]*x[j] for j in range(i)]))/float(A[i,i])
ForwardCell(M, b, v, i) == RDiv(RSub(b[i], DotVec(M, v, i, 0, i)), M[<<i, i>>])

\* line 15: x[i] = b[i] - sum([A[i,j]*x[j] for j in range(i+1,n)])
BackwardCell(M, b, v, i, n) == RSub(b[i], DotVec(M, v, i, i + 1, n))

\* what a cell of np.empty can hold before it is assigned
Garbage == {0, 1}

\* the buffers np.empty((n,n)) can return.  The cells on and above the
\* diagonal are assigned before any statement reads them, so only the content
\* of the cells below the diagonal is left open: any mix of the values of
\* Garbage, or the bit pattern of nan in every cell.
Empties(n) ==
    { [c \in Cells(n) |-> IF c[1] > c[2] THEN R(g[c]) ELSE R(0)] :
        g \in [Cells(n) -> Garbage] }
    \cup { [c \in Cells(n) |-> IF c[1] > c[2] THEN NaN ELSE R(0)] }

\* np.empty((n,)): every cell is assigned before it is read
EmptyVec(n) == [i \in 0..(n - 1) |-> R(0)]

Entries == {-1, 0, 1, 2}

\* the systems of the model: every 1 x 1 and 2 x 2 matrix over Entries, and
\* the symmetric 3 x 3 matrices with diagonal in {1, 2} and 0 or 1 elsewhere
Matrices(n) ==
    IF n < 3 THEN [Cells(n) -> Entries]
    ELSE { [c \in Cells(n) |-> IF c[1] = c[2] THEN dg[c[1]]
                               ELSE IF c[1] < c[2] THEN off[c] ELSE off[<<c[2], c[1]>>]] :
             dg \in [0..2 -> {1, 2}],
             off \in [{<<0, 1>>, <<0, 2>>, <<1, 2>>} -> {0, 1}] }

Vectors(n) == IF n < 3 THEN [0..(n - 1) -> {0, 1, 2}] ELSE [0..(n - 1) -> {0, 1}]

ToFloat(f) == [c \in DOMAIN f |-> R(f[c])]

CroutInit ==
    /\ cn \in {1, 2, 3}
    /\ \E m \in Matrices(cn) : cA = ToFloat(m)
    /\ \E v \in Vectors(cn) : cb = ToFloat(v)
    /\ LU = <<>>
    /\ cstep = 0
    /\ cy = <<>>
    /\ cx = <<>>
    /\ ck = 0
    /\ cpc = "start"

\* Crout_factorization, lines 28-31: LU = np.empty((n,n))
CroutAlloc ==
    /\ cpc = "start"
    /\ LU' \in Empties(cn)
    /\ cstep' = 1
    /\ cpc' = "factor"
    /\ UNCHANGED <<cn, cA, cb, cy, cx, ck>>
    /\ UNCHANGED notCrout

\* one assignment of the loops of lines 32-38
CroutAssign ==
    /\ cpc = "factor"
    /\ cstep <= Len(FactorSteps(cn))
    /\ LET st == FactorSteps(cn)[cstep]
       IN  LU' = [LU EXCEPT ![<<st[2], st[3]>>] =
                     IF st[1] = "L" THEN LCell(LU, cA, st[2], st[3])
                     ELSE UCell(LU, cA, st[2], st[3])]
    /\ cstep' = cstep + 1
    /\ UNCHANGED <<cn, cA, cb, cy, cx, ck, cpc>>
    /\ UNCHANGED notCrout

\* return(LU), line 40, and the entry of forward_substitution, lines 20-21
CroutReturn ==
    /\ cpc = "factor"
    /\ cstep > Len(FactorSteps(cn))
    /\ cy' = EmptyVec(cn)
    /\ ck' = 0
    /\ cpc' = IF cn > 0 THEN "forward" ELSE "done"
    /\ UNCHANGED <<cn, cA, cb, LU, cstep, cx>>
    /\ UNCHANGED notCrout

\* one pass of the loop of forward_substitution, lines 22-23; after the last
\* one its return and the entry of Crout_backward_substitution, lines 12-13
ForwardStep ==
    /\ cpc = "forward"
    /\ cy' = [cy EXCEPT ![ck] = ForwardCell(LU, cb, cy, ck)]
    /\ IF ck + 1 < cn
       THEN /\ ck' = ck + 1
            /\ UNCHANGED <<cx, cpc>>
       ELSE /\ ck' = cn - 1
            /\ cx' = EmptyVec(cn)
            /\ cpc' = "backward"
    /\ UNCHANGED <<cn, cA, cb, LU, cstep>>
    /\ UNCHANGED notCrout

\* one pass of the loop of Crout_backward_substitution, lines 14-15; after
\* the last one its return
BackwardStep ==
    /\ cpc = "backward"
    /\ cx' = [cx EXCEPT ![ck] = BackwardCell(LU, cy, cx, ck, cn)]
    /\ IF ck > 0
       THEN ck' = ck - 1 /\ UNCHANGED cpc
       ELSE ck' = ck /\ cpc' = "done"
    /\ UNCHANGED <<cn, cA, cb, LU, cstep, cy>>
    /\ UNCHANGED notCrout

NextCrout ==
    CroutAlloc \/ CroutAssign \/ CroutReturn \/ ForwardStep \/ BackwardStep

\* ============================================================= E_field
\* the time steps of t = np.linspace(0, T, 1001) the model follows: the
\* first and the last
Instants == <<0, 1000>>

\* number of intervals of np.linspace(0, T, 1001)
NSteps == 1000

\* 0.3048, feet to meters
FtToM == <<381, 1250>>

\* 0.0254, inches to meters
InToM == <<127, 5000>>

\* 1./np.sqrt(3), to four digits
LineToGround == <<15, 26>>

\* 2*np.pi/360.; angles are in units of pi radians
DegToRad == <<1, 180>>

\* C = 1./(2.*np.pi*epsilon); potentials are in units of C
C == R(1)

\* len() of an array
Len0(f) == Cardinality(DOMAIN f)

\* arr*q, elementwise
Times(arr, q) == [i \in DOMAIN arr |-> RMul(arr[i], q)]

\* q**2
Sq(q) == RMul(q, q)

\* the largest k with 2**k <= num/den, for num, den > 0
RECURSIVE FloorLog2(_, _)
FloorLog2(num, den) ==
    IF num >= den
    THEN (IF num < 2 * den THEN 0 ELSE 1 + FloorLog2(num, 2 * den))
    ELSE FloorLog2(2 * num, den) - 1

\* np.log, as the step function 0.7 * floor(log2(q)): log(0) is -inf
\* and the log of a negative number is nan, both with a warning only
Ln(q) ==
    IF q = NaN \/ q[1] < 0 THEN NaN
    ELSE IF q = PInf THEN PInf
    ELSE IF q[1] = 0 THEN RNeg(PInf)
    ELSE RMul(<<7, 10>>, R(FloorLog2(q[1], q[2])))

\* cos at the multiples of pi/3
CosNodes == << <<1, 1>>, <<1, 2>>, <<-1, 2>>, <<-1, 1>>, <<-1, 2>>, <<1, 2>>,
               <<1, 1>> >>

\* np.cos of theta*pi: exact at the multiples of pi/3, linear in between
Cos(theta) ==
    IF ~IsFinite(theta) THEN NaN
    ELSE LET num == theta[1] % (2 * theta[2])
             m == (3 * num) \div theta[2]
             fr == Norm(3 * num - m * theta[2], theta[2])
         IN  RAdd(CosNodes[m + 1],
                  RMul(RSub(CosNodes[m + 2], CosNodes[m + 1]), fr))

\* any(np.diff(f_cond)) looking at the increases only
MixedFreqMut(f) == \E i \in DOMAIN f : (i + 1) \in DOMAIN f /\ f[i + 1] - f[i] > 0

\* any(np.diff(f_cond)), line 55
MixedFreq(f) == \E i \in DOMAIN f : (i + 1) \in DOMAIN f /\ f[i + 1] - f[i] # 0

\* line 67, for conductors that are not bundled (subconds = 1, so that the
\* power 1./subconds is 1)
BundleDiameter(sub, d, db) ==
    [i \in DOMAIN d |-> RMul(db[i], RDiv(RMul(sub[i], d[i]), db[i]))]

\* lines 81-92
PMatrix(xc, yc, dc, n) ==
    [c \in Cells(n) |->
        IF c[1] = c[2]
        THEN RMul(C, Ln(RDiv(RMul(R(4), yc[c[1]]), dc[c[1]])))
        ELSE LET nn == RAdd(Sq(RSub(xc[c[1]], xc[c[2]])),
                            Sq(RAdd(yc[c[1]], yc[c[2]])))
                 dd == RAdd(Sq(RSub(xc[c[1]], xc[c[2]])),
                            Sq(RSub(yc[c[1]], yc[c[2]])))
             IN  RDiv(RMul(C, nn), dd)]

\* t[k] of np.linspace(0, T, 1001)
TimeAt(T, k) == RMul(T, Norm(k, NSteps))

\* V[k,:], lines 98-100
VoltageAt(V, w, ph, t) ==
    [i \in DOMAIN V |-> RMul(V[i], Cos(RAdd(RMul(w[i], t), ph[i])))]

\* the contribution of conductor k to E_x[j,i], lines 120-123
ExTerm(q, xk, yk, xi, yi) ==
    LET nx == RMul(RMul(C, q), RSub(xk, xi))
        d1 == RAdd(Sq(RSub(xk, xi)), Sq(RSub(yk, yi)))
        d2 == RAdd(Sq(RSub(xk, xi)), Sq(RAdd(yk, yi)))
    IN  RSub(RDiv(nx, d1), RDiv(nx, d2))

\* the contribution of conductor k to E_y[j,i], lines 120-126
EyTerm(q, xk, yk, xi, yi) ==
    LET ny1 == RMul(RMul(C, q), RSub(yk, yi))
        ny2 == RMul(RMul(C, q), RAdd(yk, yi))
        d1 == RAdd(Sq(RSub(xk, xi)), Sq(RSub(yk, yi)))
        d2 == RAdd(Sq(RSub(xk, xi)), Sq(RAdd(yk, yi)))
    IN  RSub(RDiv(ny1, d1), RDiv(ny2, d2))

\* the loop over the conductors of lines 118-126, from np.zeros
RECURSIVE FieldSum(_, _, _, _, _, _, _)
FieldSum(comp, q, xc, yc, xi, yi, n) ==
    IF n <= 0 THEN R(0)
    ELSE RAdd(FieldSum(comp, q, xc, yc, xi, yi, n - 1),
              IF comp = "x"
              THEN ExTerm(q[n - 1], xc[n - 1], yc[n - 1], xi, yi)
              ELSE EyTerm(q[n - 1], xc[n - 1], yc[n - 1], xi, yi))

\* lines 113-126: the field at every followed time step and sample point
Field(comp, qs, xc, yc, xs, ys) ==
    [jz \in (1..Len(qs)) \X DOMAIN xs |->
        FieldSum(comp, qs[jz[1]], xc, yc, xs[jz[2]], ys[jz[2]], Len0(xc))]

\* a Python list or 1-d array as a function of its zero-based index
Arr(s) == [i \in 0..(Len(s) - 1) |-> R(s[i + 1])]

\* the conductor sets of the model, in feet, inches, kV and degrees
ConductorSets ==
    { [f_cond |-> f, x_cond |-> Arr(xx), y_cond |-> Arr([i \in DOMAIN xx |-> 30]),
       subconds |-> Arr([i \in DOMAIN xx |-> 1]),
       d_cond |-> Arr([i \in DOMAIN xx |-> 1]),
       d_bund |-> Arr([i \in DOMAIN xx |-> 1]),
       V_cond |-> Arr(vv), p_cond |-> Arr(pp)] :
        xx \in {<<0>>, <<60, 0>>, <<60, 60>>},
        f \in {<<60>>, <<60, 60>>, <<60, 50>>, <<50, 60>>},
        vv \in {<<0>>, <<52>>, <<0, 0>>, <<52, 0>>, <<52, 52>>},
        pp \in {<<0>>, <<0, 120>>, <<240, 120>>} }

SamplePoints ==
    { [x |-> Arr(<<30>>), y |-> Arr(<<30>>)],
      [x |-> Arr(<<30, 60>>), y |-> Arr(<<30>>)],
      [x |-> Arr(<<30, 60>>), y |-> Arr(<<30, 30>>)] }

EFieldInit ==
    /\ \E cs \in ConductorSets, sp \in SamplePoints :
          /\ Len(cs.f_cond) = Len0(cs.x_cond)
          /\ Len0(cs.V_cond) = Len0(cs.x_cond)
          /\ Len0(cs.p_cond) = Len0(cs.x_cond)
          /\ eargs = [f_cond |-> cs.f_cond, x_cond |-> cs.x_cond,
                      y_cond |-> cs.y_cond, subconds |-> cs.subconds,
                      d_cond |-> cs.d_cond, d_bund |-> cs.d_bund,
                      V_cond |-> cs.V_cond, p_cond |-> cs.p_cond,
                      x |-> sp.x, y |-> sp.y]
    /\ before = eargs
    /\ eloc = <<>>
    /\ Pm = <<>>
    /\ einst = 0
    /\ Q = <<>>
    /\ E_x = <<>>
    /\ E_y = <<>>
    /\ epc = "start"
    /\ eerr = "none"

\* E_field, lines 49-56: the two checks
EFieldCheck ==
    /\ epc = "start"
    /\ IF Len0(eargs.x) # Len0(eargs.y) \/ MixedFreq(eargs.f_cond)
       THEN epc' = "raised" /\ eerr' = "FLDError"
       ELSE epc' = "convert" /\ eerr' = "none"
    /\ UNCHANGED <<eargs, before, eloc, Pm, einst, Q, E_x, E_y>>
    /\ UNCHANGED cvars
    /\ UNCHANGED notEField

\* lines 57-79: d_cond, x and y are bound to new arrays, while the operator
\* *= writes x_cond, y_cond, V_cond and p_cond into the caller's arrays
EFieldConvert ==
    /\ epc = "convert"
    /\ eloc' = [T |-> RRecip(R(eargs.f_cond[1])),
                w_cond |-> [i \in DOMAIN eargs.x_cond |->
                               RMul(DegToRad, R(eargs.f_cond[i + 1]))],
                d_cond |-> Times(BundleDiameter(eargs.subconds, eargs.d_cond,
                                                eargs.d_bund), InToM),
                x |-> Times(eargs.x, FtToM),
                y |-> Times(eargs.y, FtToM)]
    /\ eargs' = [eargs EXCEPT !.x_cond = Times(@, FtToM),
                              !.y_cond = Times(@, FtToM),
                              !.V_cond = Times(@, LineToGround),
                              !.p_cond = Times(@, DegToRad)]
    /\ epc' = "build"
    /\ UNCHANGED <<before, Pm, einst, Q, E_x, E_y, eerr>>
    /\ UNCHANGED cvars
    /\ UNCHANGED notEField

\* lines 81-100: P is built and handed to Crout_factorization, and the
\* voltages of the first time step are the first right-hand side
EFieldBuildP ==
    /\ epc = "build"
    /\ Pm' = PMatrix(eargs.x_cond, eargs.y_cond, eloc.d_cond, Len0(eargs.x_cond))
    /\ cn' = Len0(eargs.x_cond)
    /\ cA' = Pm'
    /\ cb' = VoltageAt(eargs.V_cond, eloc.w_cond, eargs.p_cond,
                       TimeAt(eloc.T, Instants[1]))
    /\ einst' = 1
    /\ cpc' = "start"
    /\ epc' = "solve"
    /\ UNCHANGED <<LU, cstep, cy, cx, ck>>
    /\ UNCHANGED <<eargs, before, eloc, Q, E_x, E_y, eerr>>
    /\ UNCHANGED notEField

\* lines 105-108: the row of Q of one time step is stored and the next
\* time step is handed to forward_substitution
EFieldNextSolve ==
    /\ epc = "solve"
    /\ cpc = "done"
    /\ einst < Len(Instants)
    /\ Q' = Append(Q, cx)
    /\ einst' = einst + 1
    /\ cb' = VoltageAt(eargs.V_cond, eloc.w_cond, eargs.p_cond,
                       TimeAt(eloc.T, Instants[einst + 1]))
    /\ cy' = EmptyVec(cn)
    /\ ck' = 0
    /\ cpc' = "forward"
    /\ UNCHANGED <<cn, cA, LU, cstep, cx>>
    /\ UNCHANGED <<eargs, before, eloc, Pm, E_x, E_y, epc, eerr>>
    /\ UNCHANGED notEField

\* lines 108-131: the last row of Q, the superposition and the return
EFieldReturn ==
    /\ epc = "solve"
    /\ cpc = "done"
    /\ einst = Len(Instants)
    /\ Q' = Append(Q, cx)
    /\ E_x' = Field("x", Q', eargs.x_cond, eargs.y_cond, eloc.x, eloc.y)
    /\ E_y' = Field("y", Q', eargs.x_cond, eargs.y_cond, eloc.x, eloc.y)
    /\ epc' = "returned"
    /\ UNCHANGED <<eargs, before, eloc, Pm, einst, eerr>>
    /\ UNCHANGED cvars
    /\ UNCHANGED notEField

NextEField ==
    EFieldCheck \/ EFieldConvert \/ EFieldBuildP \/ CroutAlloc \/ CroutAssign
    \/ CroutReturn \/ ForwardStep \/ BackwardStep \/ EFieldNextSolve
    \/ EFieldReturn

\* ========================================================= load_template
\* One sheet of the template workbook is read into a CrossSection: first
\* the rows of hot conductors, then the rows of grounded conductors.  A row
\* is its tag and its x and y coordinates; the remaining columns take no
\* part in the checks.

\* python's `v in list`
In(v, list) == \E i \in DOMAIN list : list[i] = v

\* python's list.index(v): the first position holding v
ListIndex(v, list) ==
    CHOOSE i \in DOMAIN list : list[i] = v /\ \A k \in 1..(i - 1) : list[k] # v

\* lines 76-83 and 112-119: the tag of the row is already in tags
TagSeen(sn, row) == In(row.tag, sn.tags)

\* lines 90-95 and 126-131: the x of the row is in x, and the y of the row
\* equals the y recorded at the first position of that x
PlaceSeen(sn, row) ==
    /\ In(row.x, sn.x)
    /\ row.y = sn.y[ListIndex(row.x, sn.x)]

\* lines 84-85 and 90-99: the lists after a row that raised nothing; the
\* tag is appended, x and y only when the x of the row is not in x yet
Recorded(sn, row) ==
    [tags |-> Append(sn.tags, row.tag),
     x    |-> IF In(row.x, sn.x) THEN sn.x ELSE Append(sn.x, row.x),
     y    |-> IF In(row.x, sn.x) THEN sn.y ELSE Append(sn.y, row.y)]

\* lines 72 and 108: tags, x, y = [], [], []
Fresh == [tags |-> <<>>, x |-> <<>>, y |-> <<>>]

TagNames == {"a", "b", "c"}
XCoords == {0, 1}
YCoords == {10, 20}
HotCounts == {0, 1, 2, 3}
GndCounts == {0, 1}

Rows == [tag : TagNames, x : XCoords, y : YCoords]

SeqsOf(S, n) == [1..n -> S]

\* the call: a sheet, the empty CrossSection of line 50 and the lists of
\* line 72
LoadInit ==
    /\ \E nh \in HotCounts, ng \in GndCounts :
         \E hr \in SeqsOf(Rows, nh), gr \in SeqsOf(Rows, ng) :
             rows = [hot |-> hr, gnd |-> gr]
    /\ seen = Fresh
    /\ lxc = [hot |-> <<>>, gnd |-> <<>>]
    /\ lrow = 1
    /\ lpc = "hot"
    /\ lerr = "none"

\* lines 73-106: one pass of the loop over the hot rows
LoadHot ==
    /\ lpc = "hot"
    /\ lrow <= Len(rows.hot)
    /\ LET row == rows.hot[lrow] IN
         IF TagSeen(seen, row) \/ PlaceSeen(seen, row)
         THEN /\ lpc' = "raised"
              /\ lerr' = "EMFError"
              /\ seen' = IF TagSeen(seen, row) THEN seen
                         ELSE [seen EXCEPT !.tags = Append(@, row.tag)]
              /\ UNCHANGED <<lxc, lrow>>
         ELSE /\ seen' = Recorded(seen, row)
              /\ lxc' = [lxc EXCEPT !.hot = Append(@, row)]
              /\ lrow' = lrow + 1
              /\ UNCHANGED <<lpc, lerr>>
    /\ UNCHANGED rows
    /\ UNCHANGED notLoad

\* line 108: the hot loop is over, the three lists are emptied
LoadReset ==
    /\ lpc = "hot"
    /\ lrow > Len(rows.hot)
    /\ seen' = Fresh
    /\ lrow' = 1
    /\ lpc' = "gnd"
    /\ UNCHANGED <<rows, lxc, lerr>>
    /\ UNCHANGED notLoad

\* lines 109-142: one pass of the loop over the grounded rows
LoadGnd ==
    /\ lpc = "gnd"
    /\ lrow <= Len(rows.gnd)
    /\ LET row == rows.gnd[lrow] IN
         IF TagSeen(seen, row) \/ PlaceSeen(seen, row)
         THEN /\ lpc' = "raised"
              /\ lerr' = "EMFError"
              /\ seen' = IF TagSeen(seen, row) THEN seen
                         ELSE [seen EXCEPT !.tags = Append(@, row.tag)]
              /\ UNCHANGED <<lxc, lrow>>
         ELSE /\ seen' = Recorded(seen, row)
              /\ lxc' = [lxc EXCEPT !.gnd = Append(@, row)]
              /\ lrow' = lrow + 1
              /\ UNCHANGED <<lpc, lerr>>
    /\ UNCHANGED rows
    /\ UNCHANGED notLoad

\* lines 144-150: the CrossSection goes into the book, which is returned
LoadReturn ==
    /\ lpc = "gnd"
    /\ lrow > Len(rows.gnd)
    /\ lpc' = "returned"
    /\ UNCHANGED <<rows, seen, lxc, lrow, lerr>>
    /\ UNCHANGED notLoad

NextLoad == LoadHot \/ LoadReset \/ LoadGnd \/ LoadReturn

\* ========================================================== SectionBook
\* A CrossSection is its identity, its name and its tag.  A call ends with
\* a result: nothing, the EMFError, False, or a CrossSection.
NoSection == [id |-> 0, name |-> "", tag |-> ""]

Result(kind, xc) == [kind |-> kind, xc |-> xc]

\* python's list[idx], indices from zero
At(list, idx) == list[idx + 1]

\* __init__, lines 201-210
EmptyBook == [xcs |-> <<>>, names |-> <<>>, tags |-> <<>>, name2idx |-> <<>>]

\* the name is looked for among the tags of the book
NameTakenMut(b, xc) == In(xc.name, b.tags)

\* "if(xc.name in self.names)", line 249
NameTaken(b, xc) == In(xc.name, b.names)

\* the else branch of add_section, lines 252-255
add_section(b, xc) ==
    [xcs |-> Append(b.xcs, xc),
     names |-> Append(b.names, xc.name),
     tags |-> Append(b.tags, xc.tag),
     name2idx |-> (xc.name :> Len(b.xcs)) @@ b.name2idx]

\* __getitem__, lines 212-219
getitem(b, key) ==
    IF key \in DOMAIN b.name2idx
    THEN Result("section", At(b.xcs, b.name2idx[key]))
    ELSE Result("False", NoSection)

SectionNames3 == {"north", "south", "river"}
SectionTags == {"existing", "proposed"}
SectionIds == {1, 2}

Sections == [id : SectionIds, name : SectionNames3, tag : SectionTags]

BookInit ==
    /\ sb = EmptyBook
    /\ under = <<>>
    /\ sbcalls = 0
    /\ sbarg = ""
    /\ sbret = Result("none", NoSection)

\* one call of add_section, lines 243-255
BookAdd ==
    /\ sbcalls < MaxCalls
    /\ \E xc \in Sections :
         /\ sbarg' = xc.name
         /\ IF NameTaken(sb, xc)
            THEN /\ sbret' = Result("EMFError", NoSection)
                 /\ UNCHANGED <<sb, under>>
            ELSE /\ sb' = add_section(sb, xc)
                 /\ under' = (xc.name :> xc) @@ under
                 /\ sbret' = Result("none", NoSection)
    /\ sbcalls' = sbcalls + 1
    /\ UNCHANGED notBook

\* one evaluation of book[key], lines 212-219
BookGet ==
    /\ sbcalls < MaxCalls
    /\ \E key \in SectionNames3 :
         /\ sbarg' = key
         /\ sbret' = getitem(sb, key)
    /\ sbcalls' = sbcalls + 1
    /\ UNCHANGED <<sb, under>>
    /\ UNCHANGED notBook

NextBook == BookAdd \/ BookGet

\* =========================================================== _double_min
\* python's max(v)
RECURSIVE MaxOf(_)
MaxOf(v) ==
    IF Len(v) = 1 THEN v[1]
    ELSE LET m == MaxOf(Tail(v)) IN IF v[1] > m THEN v[1] ELSE m

\* "if(len(v) < 2)", line 236
TooShort(v) == Len(v) < 2

\* lines 239-241: mins = [max(v), max(v)], idxs = [0, 0]
MinStart(v) == [mins |-> <<MaxOf(v), MaxOf(v)>>, idxs |-> <<0, 0>>]

\* one pass of the loop, lines 243-253
MinStep(st, v, i) ==
    IF At(v, i) < st.mins[1]
    THEN [mins |-> <<At(v, i), st.mins[1]>>, idxs |-> <<i, st.idxs[1]>>]
    ELSE IF At(v, i) < st.mins[2]
    THEN [mins |-> <<st.mins[1], At(v, i)>>, idxs |-> <<st.idxs[1], i>>]
    ELSE st

\* the state of the loop after its first n passes
RECURSIVE MinAfter(_, _)
MinAfter(v, n) ==
    IF n = 0 THEN MinStart(v) ELSE MinStep(MinAfter(v, n - 1), v, n - 1)

\* what _double_min(v) returns for len(v) >= 2
double_min(v) == MinAfter(v, Len(v))

MinValues == {0, 1, 2}
MinLengths == {0, 1, 2, 3, 4}

MinInit ==
    /\ \E n \in MinLengths : dv \in SeqsOf(MinValues, n)
    /\ dmins = <<>>
    /\ didxs = <<>>
    /\ di = 0
    /\ dpc = "start"
    /\ derr = "none"

\* lines 236-241: the length check and the initial arrays
MinEnter ==
    /\ dpc = "start"
    /\ IF TooShort(dv)
       THEN /\ dpc' = "raised"
            /\ derr' = "EMFError"
            /\ UNCHANGED <<dmins, didxs>>
       ELSE /\ dpc' = "loop"
            /\ dmins' = MinStart(dv).mins
            /\ didxs' = MinStart(dv).idxs
            /\ UNCHANGED derr
    /\ UNCHANGED <<dv, di>>
    /\ UNCHANGED notMin

\* one pass of the loop of lines 242-253
MinPass ==
    /\ dpc = "loop"
    /\ di < Len(dv)
    /\ LET st == MinStep([mins |-> dmins, idxs |-> didxs], dv, di)
       IN  dmins' = st.mins /\ didxs' = st.idxs
    /\ di' = di + 1
    /\ UNCHANGED <<dv, dpc, derr>>
    /\ UNCHANGED notMin

\* return(mins, idxs), line 255
MinReturn ==
    /\ dpc = "loop"
    /\ di = Len(dv)
    /\ dpc' = "returned"
    /\ UNCHANGED <<dv, dmins, didxs, di, derr>>
    /\ UNCHANGED notMin

NextMin == MinEnter \/ MinPass \/ MinReturn

\* ====================================================== _bilinear_interp
\* Coordinates and grid values are integers, which floats hold exactly; the
\* division of line 204 is carried out on rationals.

\* np.abs(axis - c), lines 194-195
Distances(axis, c) == [k \in DOMAIN axis |-> Abs(axis[k] - c)]

\* python's mod.B[r, c], indices from zero
BAt(B, r, c) == B[r + 1][c + 1]

\* lines 197-207: the corner values and the weighted sum divided by the
\* area of the cell
Interpolate(m, xi, yi, cx0, cy0) ==
    LET x1 == At(m.x, xi[1])
        x2 == At(m.x, xi[2])
        y1 == At(m.y, yi[1])
        y2 == At(m.y, yi[2])
        B11 == BAt(m.B, yi[1], xi[1])
        B12 == BAt(m.B, yi[1], xi[2])
        B21 == BAt(m.B, yi[2], xi[1])
        B22 == BAt(m.B, yi[2], xi[2])
    IN  RMul(RRecip(R((x2 - x1) * (y2 - y1))),
             R(B11 * (x2 - cx0) * (y2 - cy0) + B21 * (cx0 - x1) * (y2 - cy0)
               + B12 * (x2 - cx0) * (cy0 - y1) + B22 * (cx0 - x1) * (cy0 - y1)))

\* grid lines: two or three, evenly spaced or not, and a single one
Axes == { <<0>>, <<0, 4>>, <<0, 4, 8>>, <<0, 2, 8>> }

ColumnParts == {0, 1}
RowParts == {0, 3}

\* grids whose value is a part depending on the column (x) plus a part
\* depending on the row (y)
Grids(nx, ny) ==
    { [r \in 1..ny |-> [c \in 1..nx |-> p[c] + q[r]]] :
        p \in [1..nx -> ColumnParts], q \in [1..ny -> RowParts] }

\* the call: a Model and a point inside its grid
InterpInit ==
    /\ \E ax \in Axes, ay \in Axes :
         /\ \E B \in Grids(Len(ax), Len(ay)) : mod = [x |-> ax, y |-> ay, B |-> B]
         /\ qx \in ax[1]..ax[Len(ax)]
         /\ qy \in ay[1]..ay[Len(ay)]
    /\ xidx = <<>>
    /\ yidx = <<>>
    /\ B_interp = <<>>
    /\ ipc = "start"
    /\ ierr = "none"

\* lines 194-195: the two calls of _double_min
InterpLocate ==
    /\ ipc = "start"
    /\ IF TooShort(mod.x) \/ TooShort(mod.y)
       THEN /\ ipc' = "raised"
            /\ ierr' = "EMFError"
            /\ xidx' = IF TooShort(mod.x) THEN xidx
                       ELSE double_min(Distances(mod.x, qx)).idxs
            /\ UNCHANGED yidx
       ELSE /\ ipc' = "located"
            /\ xidx' = double_min(Distances(mod.x, qx)).idxs
            /\ yidx' = double_min(Distances(mod.y, qy)).idxs
            /\ UNCHANGED ierr
    /\ UNCHANGED <<mod, qx, qy, B_interp>>
    /\ UNCHANGED notInterp

\* lines 197-208: the interpolation and the return
InterpReturn ==
    /\ ipc = "located"
    /\ B_interp' = Interpolate(mod, xidx, yidx, qx, qy)
    /\ ipc' = "returned"
    /\ UNCHANGED <<mod, qx, qy, xidx, yidx, ierr>>
    /\ UNCHANGED notInterp

NextInterp == InterpLocate \/ InterpReturn

\* the state of a procedure that is not running
OptIdle ==
    /\ nHot = 0 /\ nGnd = 0 /\ tags = <<>> /\ phase = <<>>
    /\ circuits = [mode |-> "all", groups |-> <<>>]
    /\ circ = <<>> /\ opc = "idle" /\ oerr = "none" /\ updated = FALSE
    /\ phasing = <<>> /\ conds = <<>> /\ perm = <<>> /\ P = 0
    /\ mins = [m \in Metrics |-> Inf]
    /\ arrs = [m \in Metrics |-> <<>>]
    /\ nEval = 0 /\ lastPh = <<>>
    /\ bestPh = [m \in Metrics |-> <<>>]
    /\ results = [index |-> <<>>, cols |-> [m \in Metrics |-> <<>>]]
    /\ opt = <<>>

BisectIdle ==
    /\ funk = [a |-> 0, b |-> 0, shape |-> "lin"]
    /\ target = 1 /\ rel_err = 0 /\ max_iter = 0
    /\ hlow = 0 /\ hhigh = 0 /\ hmid = 0
    /\ flow = 0 /\ fhigh = 0 /\ fmid = 0
    /\ count = 0 /\ evals = 0 /\ bpc = "idle" /\ ret = 0

TargetIdle ==
    /\ txc = [hot |-> <<>>, gnd |-> <<>>]
    /\ thot = [mode |-> "all", idx |-> <<>>]
    /\ tgnd = [mode |-> "all", idx |-> <<>>]
    /\ targets = [k \in 1..4 |-> NoneVal]
    /\ tfunks = [k \in 1..4 |-> [a |-> 0, b |-> 0, shape |-> "lin"]]
    /\ kw = [max_iter |-> 0, rel_err |-> 0, hhigh |-> 0]
    /\ tconds = <<>> /\ slot = 0 /\ order = <<>>
    /\ outcome = [k \in 1..4 |-> "none"]
    /\ hs = [k \in 1..4 |-> NoneVal]
    /\ h_ret = <<>> /\ adj = <<>> /\ tpc = "idle" /\ terr = "none"

CroutIdle ==
    /\ cn = 0 /\ cA = <<>> /\ cb = <<>> /\ LU = <<>> /\ cstep = 0
    /\ cy = <<>> /\ cx = <<>> /\ ck = 0 /\ cpc = "idle"

EFieldIdle ==
    /\ eargs = <<>> /\ before = <<>> /\ eloc = <<>> /\ Pm = <<>>
    /\ einst = 0 /\ Q = <<>> /\ E_x = <<>> /\ E_y = <<>>
    /\ epc = "idle" /\ eerr = "none"

LoadIdle ==
    /\ rows = <<>> /\ seen = <<>> /\ lxc = <<>> /\ lrow = 0
    /\ lpc = "idle" /\ lerr = "none"

BookIdle ==
    /\ sb = <<>> /\ under = <<>> /\ sbcalls = 0 /\ sbarg = ""
    /\ sbret = <<>>

MinIdle ==
    /\ dv = <<>> /\ dmins = <<>> /\ didxs = <<>> /\ di = 0
    /\ dpc = "idle" /\ derr = "none"

InterpIdle ==
    /\ mod = <<>> /\ qx = 0 /\ qy = 0 /\ xidx = <<>> /\ yidx = <<>>
    /\ B_interp = <<>> /\ ipc = "idle" /\ ierr = "none"

InitOpt ==
    OptInit /\ BisectIdle /\ TargetIdle /\ CroutIdle /\ EFieldIdle
    /\ LoadIdle /\ BookIdle /\ MinIdle /\ InterpIdle

SpecOpt == InitOpt /\ [][NextOpt]_vars

InitBisect ==
    BisectInit /\ OptIdle /\ TargetIdle /\ CroutIdle /\ EFieldIdle
    /\ LoadIdle /\ BookIdle /\ MinIdle /\ InterpIdle

SpecBisect == InitBisect /\ [][NextBisect]_vars

InitTarget ==
    TargetInit /\ BisectIdle /\ OptIdle /\ CroutIdle /\ EFieldIdle
    /\ LoadIdle /\ BookIdle /\ MinIdle /\ InterpIdle

SpecTarget == InitTarget /\ [][NextTarget]_vars

InitCrout ==
    CroutInit /\ OptIdle /\ BisectIdle /\ TargetIdle /\ EFieldIdle
    /\ LoadIdle /\ BookIdle /\ MinIdle /\ InterpIdle

SpecCrout == InitCrout /\ [][NextCrout]_vars

InitEField ==
    EFieldInit /\ CroutIdle /\ OptIdle /\ BisectIdle /\ TargetIdle
    /\ LoadIdle /\ BookIdle /\ MinIdle /\ InterpIdle

SpecEField == InitEField /\ [][NextEField]_vars

InitBook ==
    BookInit /\ OptIdle /\ BisectIdle /\ TargetIdle /\ CroutIdle
    /\ EFieldIdle /\ LoadIdle /\ MinIdle /\ InterpIdle

SpecBook == InitBook /\ [][NextBook]_vars

InitLoad ==
    LoadInit /\ OptIdle /\ BisectIdle /\ TargetIdle /\ CroutIdle
    /\ EFieldIdle /\ BookIdle /\ MinIdle /\ InterpIdle

SpecLoad == InitLoad /\ [][NextLoad]_vars

InitMin ==
    MinInit /\ OptIdle /\ BisectIdle /\ TargetIdle /\ CroutIdle
    /\ EFieldIdle /\ LoadIdle /\ BookIdle /\ InterpIdle

SpecMin == InitMin /\ [][NextMin]_vars

InitInterp ==
    InterpInit /\ OptIdle /\ BisectIdle /\ TargetIdle /\ CroutIdle
    /\ EFieldIdle /\ LoadIdle /\ BookIdle /\ MinIdle

SpecInterp == InitInterp /\ [][NextInterp]_vars

\* ===================================================== optimize_phasing
\* the set of orderings of the list c
PermSet(c) ==
    {p \in [1..Len(c) -> {c[k] : k \in 1..Len(c)}] :
        \A a, b \in 1..Len(c) : a # b => p[a] # p[b]}

\* every flattened arrangement of the Cartesian product over the groups
RECURSIVE CandSet(_)
CandSet(cs) ==
    IF Len(cs) = 0 THEN { <<>> }
    ELSE {p \o q : p \in PermSet(Head(cs)), q \in CandSet(Tail(cs))}

\* the phase vector of an arrangement: slot conds[k] gets the original
\* phase of conductor a[k], every other slot its original phase
ArrangedPhase(a) ==
    [i \in 0..(nHot + nGnd - 1) |->
        IF \E k \in 1..Len(conds) : conds[k] = i
        THEN phase[a[CHOOSE k \in 1..Len(conds) : conds[k] = i]]
        ELSE phase[i]]

\* the phase vector the results table reports for metric m
ReportedPhase(m) ==
    [i \in 0..(nHot + nGnd - 1) |->
        IF \E k \in 1..Len(conds) : conds[k] = i
        THEN results.cols[m][CHOOSE k \in 1..Len(conds) : conds[k] = i]
        ELSE phase[i]]

ValueOf(m, ph) == Metric(m, ph, nHot + nGnd)

\* C1: for each of the four metrics the reported arrangement has a metric
\* value no larger than that of any candidate of the Cartesian product of
\* the per-circuit permutations, the original arrangement included.
C1_ReportedIsMinimum ==
    opc = "done" =>
        \A m \in Metrics :
            /\ \A a \in CandSet(circ) :
                   ValueOf(m, ReportedPhase(m)) <= ValueOf(m, ArrangedPhase(a))
            /\ ValueOf(m, ReportedPhase(m)) <= ValueOf(m, phase)

\* two circuits were searched and some metric is strictly improved
C1_Witness ==
    /\ opc = "done"
    /\ Len(circ) = 2
    /\ nEval = 36
    /\ \E m \in Metrics : ValueOf(m, ReportedPhase(m)) < ValueOf(m, phase)

IsIntIndex(x) == x # NonInt

AllInts(cs) == \A g \in 1..Len(cs) : \A k \in 1..Len(cs[g]) : IsIntIndex(cs[g][k])

\* C2: an explicit list of groups of valid int indices passes the index
\* validation without raising and the search goes on to the candidates.
C2_IntListPasses ==
    (circuits.mode = "list" /\ AllInts(circuits.groups) /\ opc # "start")
        => (opc # "raised" /\ oerr = "none")

\* C3: an explicit list with a non-int index raises the EMFError
\* input-shape error and no candidate is evaluated.
C3_NonIntRaisesEMFError ==
    (circuits.mode = "list" /\ ~AllInts(circuits.groups) /\ opc # "start")
        => (opc = "raised" /\ oerr = "EMFError" /\ nEval = 0)

\* C4: with circuits == 'all' a hot conductor count that is not a multiple
\* of three raises EMFError before update_arrays and before any candidate;
\* otherwise the groups are the consecutive triples [0,1,2], [3,4,5], ...
C4_AllMode ==
    (circuits.mode = "all" /\ opc # "start") =>
        IF nHot % 3 # 0
        THEN opc = "raised" /\ oerr = "EMFError" /\ nEval = 0 /\ ~updated
        ELSE /\ opc # "raised"
             /\ Len(circ) * 3 = nHot
             /\ \A g \in 1..Len(circ) :
                   circ[g] = <<3 * g - 3, 3 * g - 2, 3 * g - 1>>

\* the error was raised for five hot conductors
C4_Witness ==
    /\ circuits.mode = "all"
    /\ nHot = 5
    /\ opc = "raised"
    /\ oerr = "EMFError"

\* C5: the results table is keyed by the tags of the grouped conductors,
\* the book holds exactly the four derived cross-sections, and in the
\* section of a metric every conductor carries the phase it had in the
\* evaluation that won that metric (conds[i] gets the original phase of
\* best_arr[i]); conductors outside circuits keep their original phase.
C5_DerivedSections ==
    opc = "done" =>
        /\ results.index = [k \in 1..Len(conds) |-> tags[conds[k]]]
        /\ Len(opt) = 4
        /\ \A k \in 1..4 :
            LET m == SectionMetric[k] IN
            /\ opt[k].name = SectionNames[k]
            /\ opt[k].phase = bestPh[m]
            /\ \A i \in 1..Len(conds) :
                   opt[k].phase[conds[i]] = phase[arrs[m][i]]
            /\ \A c \in 0..(nHot + nGnd - 1) :
                   (\A i \in 1..Len(conds) : conds[i] # c)
                       => opt[k].phase[c] = phase[c]

\* a derived section differs from the input and a grounded conductor is
\* present
C5_Witness ==
    /\ opc = "done"
    /\ nGnd > 0
    /\ Len(conds) = 6
    /\ \E k \in 1..4 : opt[k].phase # phase

\* ============================================================== _bisect
\* f at the two ends of the initial bracket, times Scale
F0 == Funk(funk, 0, target)

FTop == Funk(funk, HHigh * Scale, target)

Entered == bpc \notin {"idle", "entry"}

\* C6 as first stated: the error is raised, after exactly two evaluations
\* and without a midpoint, whenever f(hlow) and f(hhigh) do not have
\* opposite signs.
C6_Original ==
    (Entered /\ ~(flow * fhigh < 0))
        => (bpc = "raised_bracket" /\ evals = 2 /\ count = 0)

\* C6: 'root is not bracketed' is raised immediately, after exactly two
\* evaluations of the objective and without evaluating a midpoint, whenever
\* f(hlow) and f(hhigh) are both non-zero and of the same sign; in
\* particular when the target is below the metric at both h = 0 and hhigh.
C6_SameSignRaises ==
    /\ (Entered /\ F0 * FTop > 0)
           => (bpc = "raised_bracket" /\ evals = 2 /\ count = 0 /\ hmid = 0)
    /\ (Entered /\ F0 > 0 /\ FTop > 0) => bpc = "raised_bracket"
    /\ (Entered /\ (F0 = 0 \/ FTop = 0)) => bpc # "raised_bracket"

\* the target lies below the metric at both ends and the error was raised
C6_Witness ==
    /\ bpc = "raised_bracket"
    /\ F0 > 0
    /\ FTop > 0
    /\ evals = 2

\* C7: the iteration-limit error is raised only if the cap was reached
\* before convergence: a last midpoint within the tolerance is returned.
C7_LimitOnlyIfNotConverged ==
    bpc = "raised_iter" => NotConverged(fmid, target, rel_err)

\* C8: every value _bisect returns satisfies |f(h)/target| <= rel_err, for
\* any max_iter (0, negative and non-integer values included).
C8_ReturnedIsConverged ==
    (bpc = "returned" /\ rel_err >= 0)
        => ~NotConverged(Funk(funk, ret, target), target, rel_err)

\* the cap leaves room for the bracket to shrink below the tolerance
IterationsSuffice ==
    /\ max_iter % 2 = 0
    /\ max_iter >= 4
    /\ funk.b * HHigh * RelDen <= rel_err * target * Pow2((max_iter \div 2) - 1)

\* C9: when the metric at h = 0 already equals the target within the
\* tolerance (f(0) zero, slightly positive or slightly negative) and the
\* metric decreases with height, _bisect does not raise and returns an
\* increment of about 0.
C9_TargetAlreadyMet ==
    (/\ Entered
     /\ funk.shape = "lin" /\ funk.b > 0
     /\ rel_err > 0
     /\ ~NotConverged(F0, target, rel_err)
     /\ IterationsSuffice)
        => /\ bpc \notin {"raised_bracket", "raised_iter"}
           /\ bpc = "returned"
                 => funk.b * ret * RelDen <= 2 * rel_err * target * Scale

Requested == SelectSeq(<<1, 2, 3, 4>>, LAMBDA k : Truthy(targets[k]))

Failed(k) == outcome[k] \in {"raised_bracket", "raised_iter"}

\* C11: the targets are solved in the order B_left, B_right, E_left,
\* E_right, every _bisect call starts from the bracket [0, hhigh] with a
\* count of its own, and a bracketing or iteration-limit failure of one call
\* ends target_fields with that EMFError: nothing is returned and no later
\* target is attempted.
C11_FailureAborts ==
    tpc # "idle" =>
      /\ Len(order) <= Len(Requested)
      /\ \A i \in DOMAIN order : order[i] = Requested[i]
      /\ bpc = "entry" =>
            /\ hlow = 0 /\ hhigh = kw.hhigh /\ count = 0
            /\ max_iter = kw.max_iter /\ rel_err = kw.rel_err
      /\ \A k \in 1..4 : Failed(k) =>
            /\ tpc = "raised" /\ terr = "EMFError"
            /\ bpc = outcome[k]
            /\ h_ret = <<>> /\ adj = <<>>
            /\ order[Len(order)] = k

C11_Witness ==
    /\ tpc = "raised" /\ terr = "EMFError"
    /\ Len(order) >= 2
    /\ Len(order) < Len(Requested)
    /\ outcome[slot] = "raised_iter"

\* C12: when the bisection of every requested target succeeds, target_fields
\* returns the tuple h, with None exactly in the slots of the skipped
\* targets, and a book with one derived cross-section per increment.
C12_SuccessReturns ==
    (tpc \in {"raised", "done"} /\ \A k \in 1..4 : ~Failed(k)) =>
      /\ tpc = "done"
      /\ h_ret = hs
      /\ \A k \in 1..4 : (hs[k] = NoneVal) <=> ~Truthy(targets[k])
      /\ Len(adj) = Cardinality({ k \in 1..4 : hs[k] # NoneVal })

\* C13: the derived cross-section of an increment a has every selected
\* conductor at its original y plus a, added once however often its index is
\* listed, which is the geometry the objective evaluated, and every other
\* conductor at its original y.
C13_DerivedRaisedOnce ==
    \A k \in 1..4 :
      (tpc \in {"raised", "done"} /\ outcome[k] = "returned") =>
        /\ FlatY(DerivedY(txc, Indices(thot, Len(txc.hot)),
                          Indices(tgnd, Len(txc.gnd)), hs[k]))
             = RaisedY(FlatY(txc), tconds, hs[k])
        /\ \E i \in DOMAIN adj :
             /\ adj[i].slot = k
             /\ FlatY(adj[i].y) = RaisedY(FlatY(txc), tconds, hs[k])

\* ======================================================== linear solver
\* the product of an n x n matrix and a vector
MatVec(M, v, n) == [i \in 0..(n - 1) |-> DotVec(M, v, i, 0, n)]

AllFinite(f) == \A c \in DOMAIN f : IsFinite(f[c])

\* the leading principal minors of M, up to order 3
Minor(M, k) ==
    IF k = 1 THEN M[<<0, 0>>]
    ELSE IF k = 2
    THEN RSub(RMul(M[<<0, 0>>], M[<<1, 1>>]), RMul(M[<<0, 1>>], M[<<1, 0>>]))
    ELSE RAdd(RSub(RMul(M[<<0, 0>>],
                        RSub(RMul(M[<<1, 1>>], M[<<2, 2>>]),
                             RMul(M[<<1, 2>>], M[<<2, 1>>]))),
                   RMul(M[<<0, 1>>],
                        RSub(RMul(M[<<1, 0>>], M[<<2, 2>>]),
                             RMul(M[<<1, 2>>], M[<<2, 0>>])))),
              RMul(M[<<0, 2>>],
                   RSub(RMul(M[<<1, 0>>], M[<<2, 1>>]),
                        RMul(M[<<1, 1>>], M[<<2, 0>>]))))

MinorsNonZero(M, n) == \A k \in 1..n : Minor(M, k) # R(0)

Identity(n) == [c \in Cells(n) |-> IF c[1] = c[2] THEN R(1) ELSE R(0)]

\* the two triangles of the combined matrix, under either convention
LowerWithDiagonal(M) ==
    [c \in DOMAIN M |-> IF c[1] >= c[2] THEN M[c] ELSE R(0)]

UnitUpper(M) ==
    [c \in DOMAIN M |-> IF c[1] < c[2] THEN M[c]
                        ELSE IF c[1] = c[2] THEN R(1) ELSE R(0)]

UnitLower(M) ==
    [c \in DOMAIN M |-> IF c[1] > c[2] THEN M[c]
                        ELSE IF c[1] = c[2] THEN R(1) ELSE R(0)]

UpperWithDiagonal(M) ==
    [c \in DOMAIN M |-> IF c[1] <= c[2] THEN M[c] ELSE R(0)]

\* the entry (r, c) of the product of two n x n matrices
ProdCell(M1, M2, r, c, n) ==
    DotVec(M1, [k \in 0..(n - 1) |-> M2[<<k, c>>]], r, 0, n)

\* the solver has returned and every value it produced is an ordinary number
SolvedFinite ==
    /\ cpc = "done"
    /\ AllFinite(LU) /\ AllFinite(cy) /\ AllFinite(cx)
    /\ \A i \in 0..(cn - 1) : LU[<<i, i>>] # R(0)

\* C14: for a matrix A whose leading principal minors are all non-zero and
\* any b, the x the three routines produce satisfies A.x = b.
C14_RoundTrip ==
    (cpc = "done" /\ MinorsNonZero(cA, cn)) => MatVec(cA, cx, cn) = cb

\* C15: for the identity matrix the three routines return b unchanged.
C15_IdentityReturnsB ==
    (cpc = "done" /\ cA = Identity(cn)) => cx = cb

\* C16 as stated: L has the unit diagonal and the stored diagonal is U's, so
\* forward substitution solves L.y = b without dividing and backward
\* substitution solves U.x = y with the stored diagonal.
C16_Original ==
    SolvedFinite =>
      /\ MatVec(UnitLower(LU), cy, cn) = cb
      /\ MatVec(UpperWithDiagonal(LU), cx, cn) = cy

\* C16: the stored diagonal is L's and U has the unit diagonal: forward
\* substitution solves L.y = b dividing by the stored diagonal, backward
\* substitution solves U.x = y without dividing, and the product L.U agrees
\* with A on and above the diagonal.
C16_CroutConvention ==
    SolvedFinite =>
      /\ MatVec(LowerWithDiagonal(LU), cy, cn) = cb
      /\ MatVec(UnitUpper(LU), cx, cn) = cy
      /\ \A c \in Cells(cn) :
            c[1] <= c[2] =>
              ProdCell(LowerWithDiagonal(LU), UnitUpper(LU), c[1], c[2], cn)
                = cA[c]

C16_Witness ==
    /\ SolvedFinite
    /\ cn = 3
    /\ \E i \in 0..(cn - 1) : LU[<<i, i>>] \notin {R(0), R(1)}
    /\ \E c \in Cells(cn) : c[1] < c[2] /\ LU[c] # R(0)
    /\ cy # cb /\ cx # cy

\* C19: a zero pivot makes the factorization fail: no factor matrix is
\* returned to the substitutions when some LU[i,i] is 0.
C19_ZeroPivotRaises ==
    cpc \in {"forward", "backward", "done"} =>
      \A i \in 0..(cn - 1) : LU[<<i, i>>] # R(0)

\* ============================================================== E_field
NotAllSame(f) == \E i, j \in DOMAIN f : f[i] # f[j]

Coincident(a) ==
    \E i, j \in DOMAIN a.x_cond :
        i # j /\ a.x_cond[i] = a.x_cond[j] /\ a.y_cond[i] = a.y_cond[j]

\* C17: when the conductor frequencies are not all identical E_field raises
\* FLDError, and it does so before it has written to any input array and
\* before it has built a matrix.
C17_MixedFrequencyRaisesFirst ==
    (NotAllSame(before.f_cond) /\ epc \notin {"idle", "start"}) =>
      /\ epc = "raised" /\ eerr = "FLDError"
      /\ eargs = before
      /\ eloc = <<>> /\ Pm = <<>>
      /\ cpc = "idle" /\ LU = <<>>

C17_Witness ==
    /\ epc = "raised"
    /\ NotAllSame(before.f_cond)
    /\ Len0(before.x) = Len0(before.y)
    /\ before.f_cond[1] > before.f_cond[2]

\* C18: E_field does not return field values for a conductor set in which
\* two conductors occupy the same (x, y); it raises a domain error.
C18_CoincidentRaises ==
    /\ epc = "returned" => ~Coincident(before)
    /\ (Coincident(before) /\ epc \notin {"idle", "start", "convert"}) =>
          (epc = "raised" /\ Pm = <<>>)

\* C20: after a call every input array holds the values it held before the
\* call.
C20_ArgumentsUnchanged ==
    epc = "returned" => eargs = before

\* the model follows the first and the last of the 1001 time steps
FirstVoltage ==
    VoltageAt(eargs.V_cond, eloc.w_cond, eargs.p_cond,
              TimeAt(eloc.T, Instants[1]))

\* C21: the time steps run from t = 0 to t = 1/frequency, and over that
\* interval the argument of every conductor's cosine advances by one full
\* cycle (2 in units of pi), so the voltages of the last time step are the
\* voltages of the first.
C21_OnePeriod ==
    (epc = "solve" /\ einst = Len(Instants)) =>
      /\ TimeAt(eloc.T, Instants[1]) = R(0)
      /\ TimeAt(eloc.T, Instants[Len(Instants)]) = RRecip(R(before.f_cond[1]))
      /\ \A i \in DOMAIN eloc.w_cond : RMul(eloc.w_cond[i], eloc.T) = R(2)
      /\ cb = FirstVoltage

\* a sample point at the position of a conductor
SampleOnConductor(a) ==
    \E i \in DOMAIN a.x, k \in DOMAIN a.x_cond :
        a.x[i] = a.x_cond[k] /\ a.y[i] = a.y_cond[k]

\* C22: for a conductor set with all voltages zero and a valid geometry (no
\* two conductors at one point, no sample point on a conductor) E_x and E_y
\* are zero at every time step and every sample point.
C22_ZeroVoltageZeroField ==
    (/\ epc = "returned"
     /\ \A k \in DOMAIN before.V_cond : before.V_cond[k] = R(0)
     /\ ~Coincident(before)
     /\ ~SampleOnConductor(before)) =>
      /\ \A c \in DOMAIN E_x : E_x[c] = R(0)
      /\ \A c \in DOMAIN E_y : E_y[c] = R(0)

\* =========================================== claims about load_template

\* every conductor of the loaded CrossSection, hot ones first
Loaded == lxc.hot \o lxc.gnd

\* C23: load_template never returns a CrossSection in which two conductors,
\* hot or grounded, occupy the same (x, y) point
C23_NoSharedPosition ==
    lpc = "returned" =>
        \A i, k \in DOMAIN Loaded :
            i # k => ~(Loaded[i].x = Loaded[k].x /\ Loaded[i].y = Loaded[k].y)

\* C24: load_template never returns a CrossSection in which two conductors,
\* hot or grounded, carry the same tag
C24_NoSharedTag ==
    lpc = "returned" =>
        \A i, k \in DOMAIN Loaded : i # k => Loaded[i].tag # Loaded[k].tag

\* ============================================ claims about the bisection

\* a pass of the while loop of _bisect that does not return
LoopPass == bpc = "loop" /\ bpc' = "loop" /\ count' = count + 1

\* C25: once the bracket check has passed, every pass of the loop that does
\* not return replaces exactly one of hlow and hhigh by the midpoint, so the
\* width of the bracket halves, hlow <= hmid <= hhigh stays inside the
\* initial bracket, and the function values at the two endpoints never have
\* the same sign
C25_BracketHalves ==
    [][LoopPass =>
        /\ \/ hlow' = hmid /\ hhigh' = hhigh
           \/ hlow' = hlow /\ hhigh' = hmid
        /\ 2 * (hhigh' - hlow') = hhigh - hlow
        /\ 0 <= hlow' /\ hlow' <= hmid' /\ hmid' <= hhigh'
        /\ hhigh' <= HHigh * Scale
        /\ Funk(funk, hlow', target) * Funk(funk, hhigh', target) <= 0]_vars

\* ======================================== claims about Crout_factorization

\* C26: Crout_factorization reads a cell of LU only after the same call has
\* assigned it: no term of either inner sum uses a cell of the np.empty
\* buffer that is still uninitialised
C26_ReadsOnlyAssigned ==
    (cpc = "factor" /\ cstep <= Len(FactorSteps(cn))) =>
        ReadCells(FactorSteps(cn)[cstep]) \subseteq WrittenCells(cn, cstep - 1)

\* ============================== claims about the phasing buffer of the search

\* C27: the phase vector handed to the solvers for a candidate depends only
\* on that candidate and on the original phases: the candidate permutes the
\* conductors within each circuit, slot conds[k] holds the original phase of
\* conductor new_arr[k], every other slot its original phase, whatever the
\* shared buffer held before; and the phases of the cross-section are never
\* written
C27_PhasingFromCandidate ==
    [][/\ phase' = phase
       /\ nEval' = nEval + 1 =>
            LET new_arr == Flatten(product(perm, P)) IN
            /\ new_arr \in CandSet(circ)
            /\ lastPh' = ArrangedPhase(new_arr)
            /\ phasing' = lastPh'
            /\ \A i \in DOMAIN lastPh' :
                   (\A k \in 1..Len(conds) : conds[k] # i)
                       => lastPh'[i] = phase[i]]_vars

\* a later candidate was evaluated on a buffer earlier candidates had changed
C27_Witness ==
    /\ opc = "search"
    /\ nEval >= 3
    /\ Len(circ) = 2
    /\ nGnd > 0
    /\ lastPh # phase
    /\ \E i \in 0..(nHot - 1) : phase[i] # phase[0]

\* ============================================ claims about SectionBook

\* the names of the book are pairwise distinct, its three lists have one
\* length, and every name leads to the section it was accepted with
BookConsistent(b, u) ==
    /\ \A i, k \in DOMAIN b.names : i # k => b.names[i] # b.names[k]
    /\ Len(b.xcs) = Len(b.names) /\ Len(b.names) = Len(b.tags)
    /\ DOMAIN b.name2idx = {b.names[i] : i \in DOMAIN b.names}
    /\ DOMAIN u = DOMAIN b.name2idx
    /\ \A n \in DOMAIN b.name2idx :
          /\ b.name2idx[n] \in 0..(Len(b.xcs) - 1)
          /\ At(b.xcs, b.name2idx[n]) = u[n]
          /\ At(b.names, b.name2idx[n]) = n
          /\ At(b.tags, b.name2idx[n]) = u[n].tag

\* a call of add_section ends with nothing or with the EMFError, an
\* evaluation of book[key] with False or with a section
AddCalled == sbcalls' = sbcalls + 1 /\ sbret'.kind \in {"none", "EMFError"}

GetCalled == sbcalls' = sbcalls + 1 /\ sbret'.kind \in {"False", "section"}

\* C28: after any sequence of add_section calls the names are pairwise
\* distinct, xcs, names and tags have the same length and xcs[name2idx[n]]
\* is the section added under n; add_section with a name already in use
\* raises EMFError and leaves xcs, names, tags and name2idx unchanged;
\* book[key] is False for a name never added
C28_BookConsistent ==
    [][/\ sbcalls' = sbcalls + 1 => BookConsistent(sb', under')
       /\ AddCalled =>
            IF In(sbarg', sb.names)
            THEN sbret'.kind = "EMFError" /\ sb' = sb
            ELSE /\ sbret'.kind = "none"
                 /\ Len(sb'.xcs) = Len(sb.xcs) + 1
                 /\ sb'.name2idx[sbarg'] = Len(sb.xcs)
       /\ GetCalled =>
            IF sbarg' \in DOMAIN under
            THEN sbret'.kind = "section" /\ sbret'.xc = under[sbarg']
            ELSE sbret'.kind = "False"]_vars

\* a book of two sections with one tag has refused a name already in use
C28_Witness ==
    /\ Len(sb.xcs) = 2
    /\ sbcalls = 4
    /\ sbret.kind = "EMFError"
    /\ sb.name2idx[sb.names[2]] = 1
    /\ sb.xcs[1].tag = sb.xcs[2].tag
    /\ sbarg = sb.names[1]

\* ============================================ claims about _double_min

\* the list v without the element at index i, indices from zero
Without(v, i) == RemoveAt(v, i + 1)

\* the lowest value of a list
LeastOf(v) == CHOOSE m \in {v[k] : k \in DOMAIN v} : \A k \in DOMAIN v : m <= v[k]

\* C29: for every v of length >= 2, _double_min returns the two lowest
\* values of v, the smallest first, with two distinct indices such that
\* v[idxs[0]] == mins[0] and v[idxs[1]] == mins[1]; for a shorter v it
\* raises EMFError
C29_TwoLowest ==
    /\ (dpc \notin {"idle", "start"} /\ Len(dv) < 2) =>
          (dpc = "raised" /\ derr = "EMFError")
    /\ (dpc \notin {"idle", "start"} /\ Len(dv) >= 2) => dpc # "raised"
    /\ dpc = "returned" =>
          /\ didxs[1] # didxs[2]
          /\ At(dv, didxs[1]) = dmins[1]
          /\ At(dv, didxs[2]) = dmins[2]
          /\ dmins[1] = LeastOf(dv)
          /\ dmins[2] = LeastOf(Without(dv, didxs[1]))

\* ======================================= claims about _bilinear_interp

\* the grid cells, by the index from zero of their lower grid lines, that
\* contain the point
CellsAround(m, px, py) ==
    { c \in (0..(Len(m.x) - 2)) \X (0..(Len(m.y) - 2)) :
        /\ At(m.x, c[1]) <= px /\ px <= At(m.x, c[1] + 1)
        /\ At(m.y, c[2]) <= py /\ py <= At(m.y, c[2] + 1) }

\* bilinear interpolation on the cell c: every corner value weighted by the
\* area of the sub-rectangle opposite that corner
Bilinear(m, c, px, py) ==
    LET xl == At(m.x, c[1])
        xr == At(m.x, c[1] + 1)
        yl == At(m.y, c[2])
        yu == At(m.y, c[2] + 1)
    IN  RDiv(R(BAt(m.B, c[2], c[1]) * (xr - px) * (yu - py)
               + BAt(m.B, c[2], c[1] + 1) * (px - xl) * (yu - py)
               + BAt(m.B, c[2] + 1, c[1]) * (xr - px) * (py - yl)
               + BAt(m.B, c[2] + 1, c[1] + 1) * (px - xl) * (py - yl)),
             R((xr - xl) * (yu - yl)))

\* C30: _bilinear_interp returns the bilinear interpolation on the grid cell
\* containing (x, y): the stored value at a grid node, and for a grid whose
\* values depend only on x the linear interpolation in x
C30_Bilinear ==
    ipc = "returned" =>
        \A c \in CellsAround(mod, qx, qy) : B_interp = Bilinear(mod, c, qx, qy)

==============================================================================
